---- MODULE Spec2Model ----
(***************************************************************************)
(* Model of src/native-bindings/webrtc_binding.cc: the N-API binding       *)
(* facade of the WebRTC module.  The state is the host's object heap, the  *)
(* module's export surface, the native engine's record of the factory      *)
(* calls it received, and the history of the calls the host made to the    *)
(* three exported factory functions.                                       *)
(***************************************************************************)
EXTENDS Naturals, Sequences, FiniteSets, TLC

VARIABLES
    pc,          \* position inside Init (the module initialization function)
    exports,     \* the module's export surface: export name -> value
    registered,  \* how many times PeerConnection::Init has run
    heap,        \* the host's objects, in allocation order: id -> object
    engine,      \* the native engine's log of NewInstance calls
    calls        \* the host's calls to the exported factories, with outcomes

vars == <<pc, exports, registered, heap, engine, calls>>

\* Bounds of the model.
MaxCalls == 2    \* calls the host makes to the exported factories

(***************************************************************************)
(* Values of the host environment.  Every value is a record of one shape   *)
(* so that values of different kinds can be compared: kind is the value's  *)
(* type, id the identity of an object (0 for a primitive), s the payload   *)
(* of a primitive.                                                         *)
(***************************************************************************)
Val(k, i, s) == [kind |-> k, id |-> i, s |-> s]
Absent == Val("absent", 0, "")          \* no such property / no such export
Undefined == Val("undefined", 0, "")
Null == Val("null", 0, "")
StringValue(s) == Val("string", 0, s)
NumberValue(s) == Val("number", 0, s)
BooleanValue(s) == Val("boolean", 0, s)
FunctionValue(name) == Val("function", 0, name)
ObjectRef(i) == Val("object", i, "")
NativeHandle(i) == Val("native", i, "PeerConnection")
ErrorValue(s) == Val("error", 0, s)

\* Property names an object of the model may carry.
SessionFields == {"type", "sdp"}
IceFields == {"candidate", "sdpMLineIndex", "sdpMid"}
FieldNames == SessionFields \cup IceFields \cup {"extra"}

\* The value the host stores under each property name of an object it builds.
HostValue(f) ==
    CASE f = "type" -> StringValue("offer")
      [] f = "sdp" -> StringValue("v=0")
      [] f = "candidate" -> StringValue("candidate:1")
      [] f = "sdpMLineIndex" -> NumberValue("0")
      [] f = "sdpMid" -> StringValue("0")
      [] OTHER -> StringValue("x")

\* The properties the host may also set to undefined: there, but without a value.
MayBeUndefined == {"sdp"}

NoProps == [f \in FieldNames |-> Absent]

Return(v) == [status |-> "return", value |-> v]
Throw(v) == [status |-> "throw", value |-> v]

(***************************************************************************)
(* The host environment's object operations, as the binding uses them.     *)
(* An object is its property map; a property that is not there maps to     *)
(* Absent, which is different from a property holding undefined or null.   *)
(***************************************************************************)

\* info[i] of a CallbackInfo: the i-th argument, undefined past the last one.
InfoArg(info, i) == IF i < Len(info) THEN info[i + 1] ELSE Undefined

\* Value::IsObject(): objects and functions; null and the other primitives are not.
IsObject(v) == v.kind \in {"object", "function", "native"}

\* Object::Has(name): the object carries the property.
Has(h, o, f) == o.kind = "object" /\ h[o.id].props[f] # Absent

\* Object::Get(name): the property's value, undefined when it is not there.
Get(h, o, f) == IF Has(h, o, f) THEN h[o.id].props[f] ELSE Undefined

\* Object::Set(name, value) on the object with identity id.
Set(h, id, f, v) == [h EXCEPT ![id].props[f] = v]

\* A mutant of ObjectNew: a record kept from the last call is handed out again.
ObjectNewCached(h) ==
    IF h # <<>> /\ h[Len(h)].by = "facade"
    THEN [heap |-> h, id |-> Len(h)]
    ELSE [heap |-> Append(h, [props |-> NoProps, by |-> "facade"]),
          id |-> Len(h) + 1]

\* A mutant of ObjectNew: the new record starts as a copy of the newest object.
ObjectNewStale(h) ==
    [heap |-> Append(h, [props |-> IF h = <<>> THEN NoProps ELSE h[Len(h)].props,
                         by |-> "facade"]),
     id |-> Len(h) + 1]

\* Napi::Object::New(env): a fresh object with no properties of its own.
ObjectNew(h) ==
    [heap |-> Append(h, [props |-> NoProps, by |-> "facade"]), id |-> Len(h) + 1]

\* Mutants of CopyField.
\* The property is read without the presence check, so an absent one is
\* written as undefined.
CopyFieldAlways(h, obj, init, f) == Set(h, obj, f, Get(h, init, f))
\* The value is converted to a string on the way.
CopyFieldToString(h, obj, init, f) ==
    IF Has(h, init, f) THEN Set(h, obj, f, StringValue(Get(h, init, f).s)) ELSE h
\* The property is moved: it is taken off the input.
CopyFieldMove(h, obj, init, f) ==
    IF Has(h, init, f)
    THEN Set(Set(h, obj, f, Get(h, init, f)), init.id, f, Absent)
    ELSE h

\* if (init.Has(f)) { obj.Set(f, init.Get(f)); }
CopyField(h, obj, init, f) ==
    IF Has(h, init, f) THEN Set(h, obj, f, Get(h, init, f)) ELSE h

\* info.Length() > 0 && info[0].IsObject()
InitGiven(info) == Len(info) > 0 /\ IsObject(info[1])

\* A mutant of SessionDescriptionRecord: every property of init is copied.
SessionDescriptionRecordAll(h, info) ==
    LET new == ObjectNew(h)
    IN  [heap |-> IF InitGiven(info) /\ info[1].kind = "object"
                  THEN [new.heap EXCEPT ![new.id].props = h[info[1].id].props]
                  ELSE new.heap,
         id |-> new.id]

\* The body of CreateRTCSessionDescription: the heap after it and the
\* identity of the record it returns.
SessionDescriptionRecord(h, info) ==
    LET new == ObjectNew(h)
        init == info[1]
        h1 == CopyField(new.heap, new.id, init, "type")
        h2 == CopyField(h1, new.id, init, "sdp")
    IN  [heap |-> IF InitGiven(info) THEN h2 ELSE new.heap, id |-> new.id]

\* The body of CreateRTCIceCandidate.
IceCandidateRecord(h, info) ==
    LET new == ObjectNew(h)
        init == info[1]
        h1 == CopyField(new.heap, new.id, init, "candidate")
        h2 == CopyField(h1, new.id, init, "sdpMLineIndex")
        h3 == CopyField(h2, new.id, init, "sdpMid")
    IN  [heap |-> IF InitGiven(info) THEN h3 ELSE new.heap, id |-> new.id]

(***************************************************************************)
(* The native engine behind peer_connection.h.  Its code is not part of    *)
(* the binding file; it is modelled from the specification: registration   *)
(* puts the native constructor on the export surface, and the connection   *)
(* factory either returns a handle or raises a failure of its own.         *)
(***************************************************************************)
NativeConstructor == FunctionValue("PeerConnection")
NativeNames == {"PeerConnection", "RTCPeerConnection"}
NativeErrors == {ErrorValue("OperationError")}

\* PeerConnection::Init(env, exports): registers the constructor type under
\* its own name, and possibly under the standard name as well.
PeerConnectionInit(S) ==
    /\ "PeerConnection" \in S
    /\ exports' = [n \in DOMAIN exports |->
                     IF n \in S THEN NativeConstructor ELSE exports[n]]
    /\ registered' = registered + 1

\* What PeerConnection::NewInstance(env, config) may answer.
NativeOutcomes == {Return(NativeHandle(Len(engine) + 1))} \cup {Throw(e) : e \in NativeErrors}

\* PeerConnection::NewInstance(env, config) answering r: the engine has seen config.
PeerConnectionNewInstance(config, r) ==
    /\ r \in NativeOutcomes
    /\ engine' = Append(engine, [config |-> config, outcome |-> r])

(***************************************************************************)
(* Module initialization: Init(env, exports), one statement per step.      *)
(***************************************************************************)
ExportNames ==
    {"PeerConnection", "RTCPeerConnection", "RTCSessionDescription",
     "RTCIceCandidate", "version", "isNativeImplementation"}

\* PeerConnection::Init(env, exports);
InitRegister ==
    /\ pc = "load"
    /\ \E S \in SUBSET NativeNames : PeerConnectionInit(S)
    /\ pc' = "registered"
    /\ UNCHANGED <<heap, engine, calls>>

\* exports.Set(name, value) as the step of Init from position at to position to.
ExportsSet(at, to, name, value) ==
    /\ pc = at
    /\ exports' = [exports EXCEPT ![name] = value]
    /\ pc' = to
    /\ UNCHANGED <<registered, heap, engine, calls>>

\* A mutant of InitSetRTCPeerConnection: the export is attached first, in
\* place of the native registration.
InitSetRTCPeerConnectionFirst ==
    ExportsSet("load", "exported1", "RTCPeerConnection",
               FunctionValue("CreateRTCPeerConnection"))

InitSetRTCPeerConnection ==
    ExportsSet("registered", "exported1", "RTCPeerConnection",
               FunctionValue("CreateRTCPeerConnection"))

InitSetRTCSessionDescription ==
    ExportsSet("exported1", "exported2", "RTCSessionDescription",
               FunctionValue("CreateRTCSessionDescription"))

InitSetRTCIceCandidate ==
    ExportsSet("exported2", "exported3", "RTCIceCandidate",
               FunctionValue("CreateRTCIceCandidate"))

\* A mutant of InitSetVersion: another version string.
InitSetVersionShort ==
    ExportsSet("exported3", "exported4", "version", StringValue("1.0"))

InitSetVersion ==
    ExportsSet("exported3", "exported4", "version", StringValue("1.0.0"))

InitSetIsNativeImplementation ==
    ExportsSet("exported4", "done", "isNativeImplementation", BooleanValue("true"))

(***************************************************************************)
(* The host: once the module is loaded it builds objects and calls the     *)
(* exported functions with no argument, a primitive or an object.          *)
(***************************************************************************)
HostObjects(h) == {i \in DOMAIN h : h[i].by = "host"}

\* The host builds the object it is going to pass: it carries the properties
\* named in S, those in U holding undefined.  The host builds one object of
\* its own; every other object it can pass is a record that an earlier call
\* returned.
HostNewObject(S, U) ==
    /\ pc = "done"
    /\ Len(calls) < MaxCalls
    /\ HostObjects(heap) = {}
    /\ heap' = Append(heap, [props |-> [f \in FieldNames |->
                                          IF f \in U THEN Undefined
                                          ELSE IF f \in S THEN HostValue(f)
                                          ELSE Absent],
                             by |-> "host"])
    /\ UNCHANGED <<pc, exports, registered, engine, calls>>

Primitives == {Null, StringValue("offer")}

\* The argument lists of a call: none, one primitive, or one object of the heap.
ArgLists ==
    {<<>>} \cup {<<v>> : v \in Primitives}
           \cup {<<ObjectRef(i)>> : i \in DOMAIN heap}

\* The host may call the function found under an export name.
Callable(name, fn) ==
    /\ pc = "done"
    /\ Len(calls) < MaxCalls
    /\ exports[name] = FunctionValue(fn)

Called(op, info, outcome) == [op |-> op, info |-> info, outcome |-> outcome]

\* A mutant of CreateRTCPeerConnection: a missing configuration is replaced
\* by a default and a failure of the engine is reported as a TypeError.
CreateRTCPeerConnectionGuarded(info) ==
    /\ \E r \in NativeOutcomes :
          /\ PeerConnectionNewInstance(IF info = <<>> THEN Null ELSE info[1], r)
          /\ calls' = Append(calls, Called("CreateRTCPeerConnection", info,
                                IF r.status = "throw"
                                THEN Throw(ErrorValue("TypeError")) ELSE r))
    /\ UNCHANGED <<pc, exports, registered, heap>>

\* return PeerConnection::NewInstance(env, info[0]);
CreateRTCPeerConnection(info) ==
    /\ \E r \in NativeOutcomes :
          /\ PeerConnectionNewInstance(InfoArg(info, 0), r)
          /\ calls' = Append(calls, Called("CreateRTCPeerConnection", info, r))
    /\ UNCHANGED <<pc, exports, registered, heap>>

\* A mutant of CreateRTCSessionDescription: an argument that is missing or
\* not an object is rejected with a TypeError.
CreateRTCSessionDescriptionStrict(info) ==
    LET made == SessionDescriptionRecord(heap, info)
    IN  /\ heap' = IF InitGiven(info) THEN made.heap ELSE heap
        /\ calls' = Append(calls, Called("CreateRTCSessionDescription", info,
                              IF InitGiven(info) THEN Return(ObjectRef(made.id))
                              ELSE Throw(ErrorValue("TypeError"))))
        /\ UNCHANGED <<pc, exports, registered, engine>>

CreateRTCSessionDescription(info) ==
    LET made == SessionDescriptionRecord(heap, info)
    IN  /\ heap' = made.heap
        /\ calls' = Append(calls, Called("CreateRTCSessionDescription", info,
                                         Return(ObjectRef(made.id))))
        /\ UNCHANGED <<pc, exports, registered, engine>>

CreateRTCIceCandidate(info) ==
    LET made == IceCandidateRecord(heap, info)
    IN  /\ heap' = made.heap
        /\ calls' = Append(calls, Called("CreateRTCIceCandidate", info,
                                         Return(ObjectRef(made.id))))
        /\ UNCHANGED <<pc, exports, registered, engine>>

CallRTCPeerConnection ==
    /\ Callable("RTCPeerConnection", "CreateRTCPeerConnection")
    /\ \E info \in ArgLists : CreateRTCPeerConnection(info)

CallRTCSessionDescription ==
    /\ Callable("RTCSessionDescription", "CreateRTCSessionDescription")
    /\ \E info \in ArgLists : CreateRTCSessionDescription(info)

CallRTCIceCandidate ==
    /\ Callable("RTCIceCandidate", "CreateRTCIceCandidate")
    /\ \E info \in ArgLists : CreateRTCIceCandidate(info)

HostBuild ==
    \E S \in SUBSET FieldNames :
        \E U \in SUBSET (S \cap MayBeUndefined) : HostNewObject(S, U)

Init ==
    /\ pc = "load"
    /\ exports = [n \in ExportNames |-> Absent]
    /\ registered = 0
    /\ heap = <<>>
    /\ engine = <<>>
    /\ calls = <<>>

Next ==
    \/ InitRegister
    \/ InitSetRTCPeerConnection
    \/ InitSetRTCSessionDescription
    \/ InitSetRTCIceCandidate
    \/ InitSetVersion
    \/ InitSetIsNativeImplementation
    \/ HostBuild
    \/ CallRTCPeerConnection
    \/ CallRTCSessionDescription
    \/ CallRTCIceCandidate

Spec == Init /\ [][Next]_vars

(***************************************************************************)
(* Vocabulary of the properties.                                           *)
(***************************************************************************)
DescriptorOps == {"CreateRTCSessionDescription", "CreateRTCIceCandidate"}

\* The property names a factory recognizes.
Recognized(op) ==
    IF op = "CreateRTCSessionDescription" THEN SessionFields ELSE IceFields

CallsOf(ops) == {k \in DOMAIN calls : calls[k].op \in ops}

\* The call was given an object as its first argument.
ObjectGiven(c) == c.info # <<>> /\ c.info[1].kind = "object"

\* The call was given no argument, or a primitive one.
NothingUsableGiven(c) ==
    \/ c.info = <<>>
    \/ c.info[1].kind \in {"undefined", "null", "string", "number", "boolean"}

\* The properties of the object passed to the call / of the record it returned.
InitProps(c) == heap[c.info[1].id].props
RecordProps(c) == heap[c.outcome.value.id].props
Returned(c) == c.outcome.status = "return" /\ c.outcome.value.kind = "object"

PropNames(props) == {f \in FieldNames : props[f] # Absent}

\* C1: for every object init passed to createSessionDescription and each of
\* type and sdp, the returned record has the property exactly when init has
\* it, and then with init's value.
C1_SessionDescriptionCopiesPresentFields ==
    \A k \in CallsOf({"CreateRTCSessionDescription"}) :
        ObjectGiven(calls[k]) =>
            /\ Returned(calls[k])
            /\ \A f \in SessionFields :
                  /\ (f \in PropNames(RecordProps(calls[k])))
                        <=> (f \in PropNames(InitProps(calls[k])))
                  /\ f \in PropNames(InitProps(calls[k]))
                        => RecordProps(calls[k])[f] = InitProps(calls[k])[f]

\* An init with type and no sdp went through createSessionDescription.
C1_Witness ==
    \E k \in CallsOf({"CreateRTCSessionDescription"}) :
        /\ ObjectGiven(calls[k])
        /\ "type" \in PropNames(InitProps(calls[k]))
        /\ "sdp" \notin PropNames(InitProps(calls[k]))
        /\ PropNames(RecordProps(calls[k])) = {"type"}

\* C2: for every object init passed to createIceCandidate and each of
\* candidate, sdpMLineIndex and sdpMid, the record has the property exactly
\* when init has it, with the same type of value and the same value.
C2_IceCandidateCopiesPresentFields ==
    \A k \in CallsOf({"CreateRTCIceCandidate"}) :
        ObjectGiven(calls[k]) =>
            /\ Returned(calls[k])
            /\ \A f \in IceFields :
                  IF f \in PropNames(InitProps(calls[k]))
                  THEN /\ RecordProps(calls[k])[f].kind = InitProps(calls[k])[f].kind
                       /\ RecordProps(calls[k])[f].s = InitProps(calls[k])[f].s
                       /\ RecordProps(calls[k])[f].id = InitProps(calls[k])[f].id
                  ELSE f \notin PropNames(RecordProps(calls[k]))

\* An init with a string candidate, a numeric sdpMLineIndex and a string
\* sdpMid went through createIceCandidate and the record holds a number and
\* two strings.
C2_Witness ==
    \E k \in CallsOf({"CreateRTCIceCandidate"}) :
        /\ ObjectGiven(calls[k])
        /\ IceFields \subseteq PropNames(InitProps(calls[k]))
        /\ RecordProps(calls[k])["candidate"] = StringValue("candidate:1")
        /\ RecordProps(calls[k])["sdpMLineIndex"] = NumberValue("0")
        /\ RecordProps(calls[k])["sdpMid"] = StringValue("0")

\* C3: whatever the input, the record a descriptor factory returns carries
\* only property names the factory recognizes, and the call raises nothing.
C3_OnlyRecognizedFields ==
    \A k \in CallsOf(DescriptorOps) :
        /\ Returned(calls[k])
        /\ PropNames(RecordProps(calls[k])) \subseteq Recognized(calls[k].op)

\* Each factory was given an object with a property it does not recognize.
C3_Witness ==
    \A op \in DescriptorOps :
        \E k \in CallsOf({op}) :
            /\ ObjectGiven(calls[k])
            /\ "extra" \in PropNames(InitProps(calls[k]))
            /\ PropNames(InitProps(calls[k])) \cap Recognized(op) # {}

\* C4: a descriptor factory called with no argument or with a primitive
\* raises nothing and returns a record with no properties, as it does for an
\* object with no properties.
C4_MissingInputGivesEmptyRecord ==
    \A k \in CallsOf(DescriptorOps) :
        (\/ NothingUsableGiven(calls[k])
         \/ (ObjectGiven(calls[k]) /\ PropNames(InitProps(calls[k])) = {}))
            => /\ Returned(calls[k])
               /\ PropNames(RecordProps(calls[k])) = {}

\* One descriptor call was made with no argument and one with a primitive,
\* and both returned records without properties.
C4_Witness ==
    /\ \E k \in CallsOf(DescriptorOps) :
          calls[k].info = <<>> /\ PropNames(RecordProps(calls[k])) = {}
    /\ \E k \in CallsOf(DescriptorOps) :
          calls[k].info # <<>> /\ NothingUsableGiven(calls[k])
                               /\ PropNames(RecordProps(calls[k])) = {}

\* C5: createPeerConnection has the outcome of the native factory called
\* once with the first argument as given (undefined when there is none): the
\* engine has seen one request per call, with that configuration, and the
\* call ended the way the engine answered, handle or failure.
PeerConnectionCalls ==
    SelectSeq(calls, LAMBDA c : c.op = "CreateRTCPeerConnection")

C5_PeerConnectionDelegates ==
    /\ Len(engine) = Len(PeerConnectionCalls)
    /\ \A k \in DOMAIN PeerConnectionCalls :
          /\ engine[k].config =
                (IF PeerConnectionCalls[k].info = <<>> THEN Undefined
                 ELSE PeerConnectionCalls[k].info[1])
          /\ engine[k].outcome = PeerConnectionCalls[k].outcome

\* A call without argument was answered with a handle and a call with an
\* object was answered with a failure.
C5_Witness ==
    /\ \E k \in DOMAIN PeerConnectionCalls :
          /\ PeerConnectionCalls[k].info = <<>>
          /\ PeerConnectionCalls[k].outcome.status = "return"
          /\ PeerConnectionCalls[k].outcome.value.kind = "native"
    /\ \E k \in DOMAIN PeerConnectionCalls :
          /\ ObjectGiven(PeerConnectionCalls[k])
          /\ PeerConnectionCalls[k].outcome.status = "throw"

\* C6: the record a descriptor factory returns is a new one: it is not the
\* object passed in and not a record any earlier call returned.
C6_RecordIsNew ==
    \A k \in CallsOf(DescriptorOps) :
        /\ Returned(calls[k])
        /\ ObjectGiven(calls[k]) => calls[k].outcome.value.id # calls[k].info[1].id
        /\ \A j \in CallsOf(DescriptorOps) :
              j < k => calls[j].outcome.value.id # calls[k].outcome.value.id

\* The same object was passed twice to the same factory.
C6_Witness ==
    \E j, k \in CallsOf(DescriptorOps) :
        /\ j < k
        /\ calls[j].op = calls[k].op
        /\ ObjectGiven(calls[j])
        /\ calls[j].info = calls[k].info

\* C7: once the module is initialized, and after any calls to the three
\* factories, version is the string "1.0.0" and isNativeImplementation is
\* the boolean true.
C7_ConstantsFixed ==
    pc = "done" =>
        /\ exports["version"] = StringValue("1.0.0")
        /\ exports["isNativeImplementation"] = BooleanValue("true")

\* The module is initialized and two different factories have been called.
C7_Witness ==
    /\ pc = "done"
    /\ exports["version"].kind = "string"
    /\ \E j, k \in DOMAIN calls : calls[j].op # calls[k].op

\* C8: initialization runs the native registration once, before it attaches
\* any of its five exports, and ends with the three factory names bound to
\* the facade's functions, whatever the registration left there, beside the
\* two constants.
FacadeExport(n) ==
    CASE n = "RTCPeerConnection" -> FunctionValue("CreateRTCPeerConnection")
      [] n = "RTCSessionDescription" -> FunctionValue("CreateRTCSessionDescription")
      [] n = "RTCIceCandidate" -> FunctionValue("CreateRTCIceCandidate")
      [] n = "version" -> StringValue("1.0.0")
      [] n = "isNativeImplementation" -> BooleanValue("true")

FacadeNames ==
    {"RTCPeerConnection", "RTCSessionDescription", "RTCIceCandidate",
     "version", "isNativeImplementation"}

C8_InitializationOrder ==
    /\ registered <= 1
    /\ \A n \in FacadeNames : exports[n] = FacadeExport(n) => registered = 1
    /\ pc = "done" => \A n \in FacadeNames : exports[n] = FacadeExport(n)
    /\ pc = "load" => \A n \in ExportNames : exports[n] = Absent

\* Initialization is over and the native constructor is on the surface too.
C8_Witness ==
    /\ pc = "done"
    /\ registered = 1
    /\ exports["PeerConnection"] = NativeConstructor
    /\ exports["RTCPeerConnection"] = FunctionValue("CreateRTCPeerConnection")

\* C9: a descriptor factory's result depends on its argument alone: two
\* calls of the same factory with equal input, made after different earlier
\* calls, return records with the same properties and values.
InputOf(c) ==
    [given |-> c.info # <<>>,
     value |-> IF ObjectGiven(c) THEN ObjectRef(0)
               ELSE IF c.info = <<>> THEN Undefined ELSE c.info[1],
     props |-> IF ObjectGiven(c) THEN InitProps(c) ELSE NoProps]

DescriptorCallStep ==
    /\ Len(calls') = Len(calls) + 1
    /\ calls'[Len(calls')].op \in DescriptorOps

C10_InputUnchanged ==
    [][DescriptorCallStep =>
          /\ exports' = exports
          /\ \A i \in DOMAIN heap : heap'[i] = heap[i]]_vars

\* A descriptor factory copied properties from an object that still has them.
C10_Witness ==
    \E k \in CallsOf(DescriptorOps) :
        /\ ObjectGiven(calls[k])
        /\ PropNames(RecordProps(calls[k])) # {}
        /\ PropNames(RecordProps(calls[k])) \subseteq PropNames(InitProps(calls[k]))
        /\ exports["version"] = StringValue("1.0.0")

====
